---- MODULE Spec2Model ----
(***************************************************************************)
(* Model of the LinkedIn session collector: the session store (in-memory   *)
(* and Redis variants, session_manager.py), the SessionProcessor scoped    *)
(* browser connection (session_processor.py), the finalize endpoint        *)
(* (app.py) and the delivery client with its retry decorator               *)
(* (linkedin_session.py).                                                  *)
(***************************************************************************)
EXTENDS Integers, Sequences, FiniteSets, TLC

VARIABLES
    backend,      \* settings.SESSION_BACKEND: "memory" or "redis"
    sessions,     \* InMemorySessionManager._sessions (a dict)
    redis_kv,     \* the Redis keyspace: key -> [val: JSON text, exp: expiry time]
    now,          \* the Redis server's clock in seconds (drives key expiry)
    cpc,          \* claim caller: "idle" or "pending" (its claim_session call is in flight)
    cid,          \* claim caller: the session id it claims
    cvalid,       \* history: the id held a record when the call was made and only claims touched it since
    lastRet,      \* what the store call that ran last returned or raised
    hist,         \* history per id: data just stored, claims since the last store, claims won and lost
    spc,          \* send_to_bubble: "idle", "attempt", "sleep" or "done"
    attempt_number, \* tenacity retry_state.attempt_number
    resps,        \* the answers of the Bubble endpoint to the attempts made so far
    slept,        \* the waits between the attempts, in seconds
    sresult,      \* what send_to_bubble gave its caller
    response_text, \* e.response.text, the text _sanitize_error_response is given
    sanitized,    \* what _sanitize_error_response made of it, one entry per application
    proc,         \* per finalize request: the SessionProcessor object and the request's progress
    starts        \* per internal id: the start request that drew it (outcome, record, response)

storeVars == <<backend, sessions, redis_kv, now>>
clientVars == <<cpc, cid, cvalid, lastRet, hist>>
sendVars == <<spc, attempt_number, resps, slept, sresult, response_text, sanitized>>
finVars == <<proc, starts>>
vars == <<backend, sessions, redis_kv, now, cpc, cid, cvalid, lastRet, hist,
          spc, attempt_number, resps, slept, sresult, response_text, sanitized,
          proc, starts>>

----------------------------------------------------------------------------
(* Bounds of the model *)

NumClients == 2      \* concurrent callers of claim_session
NumFinalizers == 2   \* finalize requests
TickStep == 450      \* seconds the clock advances in one Tick
MaxNow == 900        \* the clock stops advancing here

(* Program constants *)

session_ttl_seconds == 900

Ids == {"id1", "id2"}     \* internal session ids (uuid4 strings)
NoId == "-"
Clients == 1..NumClients
Finalizers == 1..NumFinalizers
ProviderIds == {"bb1", "bb2"}

----------------------------------------------------------------------------
(* Python values *)

PyNone == [t |-> "None"]
PyDict(d) == [t |-> "dict", v |-> d]
PyBool(b) == [t |-> "bool", b |-> b]
PyStr(s) == [t |-> "str", s |-> s]
Raised(e) == [t |-> "raise", exc |-> e]

IsDict(x) == x.t = "dict"
IsRaise(x) == x.t = "raise"

\* the dict returned by create_new_session for provider session b
SessionDetails(b) ==
    PyDict([browserbase_session_id |-> b, debugger_url |-> "https://debug/" \o b])

Records == {SessionDetails(b) : b \in ProviderIds}

\* Python truthiness of the values that reach an `if x:` test here
Truthy(x) ==
    CASE x.t = "None" -> FALSE
      [] x.t = "dict" -> DOMAIN x.v # {}
      [] x.t = "str" -> Len(x.s) > 0
      [] x.t = "bool" -> x.b
      [] OTHER -> TRUE

(* Python dict operations, a dict being a function on its keys *)

EmptyDict == [k \in {} |-> PyNone]
DictSet(d, k, v) == [x \in (DOMAIN d) \cup {k} |-> IF x = k THEN v ELSE d[x]]
DictDel(d, k) == [x \in (DOMAIN d) \ {k} |-> d[x]]
DictLookup(d, k, default) == IF k \in DOMAIN d THEN d[k] ELSE default

(* json.dumps / json.loads on a dict of strings: the text is the sequence *)
(* "{", one <<key, value>> item per field, "}"                            *)

KeySeq(S) ==
    CHOOSE s \in [1..Cardinality(S) -> S] : \A i, j \in 1..Cardinality(S) : i # j => s[i] # s[j]

json_dumps(x) ==
    LET ks == KeySeq(DOMAIN x.v)
    IN  PyStr(<<"{">> \o [i \in 1..Len(ks) |-> <<ks[i], x.v[ks[i]]>>] \o <<"}">>)

json_loads(text) ==
    LET items == SubSeq(text.s, 2, Len(text.s) - 1)
        keys == {items[i][1] : i \in 1..Len(items)}
    IN  PyDict([k \in keys |-> items[CHOOSE i \in 1..Len(items) : items[i][1] = k][2]])

----------------------------------------------------------------------------
(* InMemorySessionManager: each operator gives the return value and the   *)
(* dict afterwards                                                        *)

InMemory_store_session_noop(d, session_id, session_data) ==
    [ret |-> PyNone, sessions |-> d]

InMemory_store_session(d, session_id, session_data) ==
    [ret |-> PyNone, sessions |-> DictSet(d, session_id, session_data)]

\* get_session calls self._sessions.retrieve, which a dict does not have
InMemory_get_session(d, session_id) ==
    [ret |-> Raised("AttributeError"), sessions |-> d]

InMemory_remove_session(d, session_id) ==
    [ret |-> PyNone,
     sessions |-> IF session_id \in DOMAIN d THEN DictDel(d, session_id) ELSE d]

InMemory_claim_session_noDelete(d, session_id) ==
    [ret |-> DictLookup(d, session_id, PyNone), sessions |-> d]

\* self._sessions.pop(session_id, None)
InMemory_claim_session(d, session_id) ==
    [ret |-> DictLookup(d, session_id, PyNone), sessions |-> DictDel(d, session_id)]

InMemory_check_connection == PyBool(TRUE)

(* Redis commands on the keyspace; a key past its expiry time is gone *)

Live(kv, t) == [k \in {x \in DOMAIN kv : kv[x].exp > t} |-> kv[k]]

Redis_SET(kv, key, text, ex, t) == DictSet(kv, key, [val |-> text, exp |-> t + ex])
Redis_GET(kv, key) == IF key \in DOMAIN kv THEN kv[key].val ELSE PyNone
Redis_DEL(kv, key) == DictDel(kv, key)
Redis_GETDEL_getOnly(kv, key) == [val |-> Redis_GET(kv, key), kv |-> kv]
Redis_GETDEL(kv, key) == [val |-> Redis_GET(kv, key), kv |-> DictDel(kv, key)]

(* RedisSessionManager; up = FALSE is a command that fails with a         *)
(* redis.exceptions.RedisError and leaves the keyspace alone              *)

Redis_store_session_longTTL(kv, session_id, session_data, t, up) ==
    IF ~up THEN [ret |-> Raised("RedisError"), kv |-> kv]
    ELSE [ret |-> PyNone,
          kv |-> Redis_SET(kv, session_id, json_dumps(session_data),
                           2 * session_ttl_seconds, t)]

Redis_store_session(kv, session_id, session_data, t, up) ==
    IF ~up THEN [ret |-> Raised("RedisError"), kv |-> kv]
    ELSE [ret |-> PyNone,
          kv |-> Redis_SET(kv, session_id, json_dumps(session_data), session_ttl_seconds, t)]

Redis_get_session(kv, session_id, up) ==
    IF ~up THEN [ret |-> Raised("RedisError"), kv |-> kv]
    ELSE LET session_data_json == Redis_GET(kv, session_id)
         IN  [ret |-> IF Truthy(session_data_json) THEN json_loads(session_data_json) ELSE PyNone,
              kv |-> kv]

Redis_remove_session(kv, session_id, up) ==
    IF ~up THEN [ret |-> Raised("RedisError"), kv |-> kv]
    ELSE [ret |-> PyNone, kv |-> Redis_DEL(kv, session_id)]

Redis_claim_session(kv, session_id, up) ==
    IF ~up THEN [ret |-> Raised("RedisError"), kv |-> kv]
    ELSE LET r == Redis_GETDEL(kv, session_id)
         IN  [ret |-> IF Truthy(r.val) THEN json_loads(r.val) ELSE PyNone,
              kv |-> r.kv]

\* how a PING ends: the answer, a redis.exceptions.ConnectionError, or
\* another RedisError such as the TimeoutError of a socket timeout
PingOutcomes == {"PONG", "ConnectionError", "TimeoutError"}

\* return self.redis_client.ping(), with except ConnectionError: return False
Redis_check_connection(ping) ==
    CASE ping = "PONG" -> PyBool(TRUE)
      [] ping = "ConnectionError" -> PyBool(FALSE)
      [] OTHER -> Raised(ping)

----------------------------------------------------------------------------
(* The configured session manager (dependencies.py picks one variant at   *)
(* startup): each operator gives the return value and both stores after   *)

UpChoices == IF backend = "redis" THEN BOOLEAN ELSE {TRUE}

store_session(session_id, session_data, up) ==
    IF backend = "memory"
    THEN LET r == InMemory_store_session(sessions, session_id, session_data)
         IN  [ret |-> r.ret, sessions |-> r.sessions, kv |-> redis_kv]
    ELSE LET r == Redis_store_session(redis_kv, session_id, session_data, now, up)
         IN  [ret |-> r.ret, sessions |-> sessions, kv |-> r.kv]

get_session(session_id, up) ==
    IF backend = "memory"
    THEN LET r == InMemory_get_session(sessions, session_id)
         IN  [ret |-> r.ret, sessions |-> r.sessions, kv |-> redis_kv]
    ELSE LET r == Redis_get_session(redis_kv, session_id, up)
         IN  [ret |-> r.ret, sessions |-> sessions, kv |-> r.kv]

remove_session(session_id, up) ==
    IF backend = "memory"
    THEN LET r == InMemory_remove_session(sessions, session_id)
         IN  [ret |-> r.ret, sessions |-> r.sessions, kv |-> redis_kv]
    ELSE LET r == Redis_remove_session(redis_kv, session_id, up)
         IN  [ret |-> r.ret, sessions |-> sessions, kv |-> r.kv]

claim_session(session_id, up) ==
    IF backend = "memory"
    THEN LET r == InMemory_claim_session(sessions, session_id)
         IN  [ret |-> r.ret, sessions |-> r.sessions, kv |-> redis_kv]
    ELSE LET r == Redis_claim_session(redis_kv, session_id, up)
         IN  [ret |-> r.ret, sessions |-> sessions, kv |-> r.kv]

PingChoices == IF backend = "redis" THEN PingOutcomes ELSE {"PONG"}

check_connection(ping) ==
    IF backend = "memory" THEN InMemory_check_connection ELSE Redis_check_connection(ping)

\* the store holds a record under the id
Holds(id) == IF backend = "memory" THEN id \in DOMAIN sessions ELSE id \in DOMAIN redis_kv

----------------------------------------------------------------------------
(* Delivery client: send_to_bubble under @retry(stop_after_attempt(3),    *)
(* wait_exponential(multiplier=1, min=2, max=10),                         *)
(* retry_error_callback=_log_after_retry)                                 *)

max_attempt_number == 3
wait_multiplier == 1
wait_min == 2
wait_max == 10
exp_base == 2

\* what the endpoint can answer: an HTTP status, or no answer (a transport error)
NetError == [kind |-> "neterr", status |-> 0]
Http(n) == [kind |-> "http", status |-> n]
Responses == {Http(200), Http(400), Http(404), Http(500), Http(503), NetError}

Is2xx(r) == r.kind = "http" /\ 200 <= r.status /\ r.status < 300
Is4xx(r) == r.kind = "http" /\ 400 <= r.status /\ r.status < 500
Retryable(r) == r.kind = "neterr" \/ (r.kind = "http" /\ r.status >= 500)

\* one run of the body of send_to_bubble: client.post, raise_for_status and
\* the except clauses, each of which re-raises
AttemptOutcome(r) ==
    CASE r.kind = "neterr" -> Raised("RequestError")
      [] Is2xx(r) -> PyNone
      [] Is4xx(r) -> Raised("HTTPStatusError")
      [] OTHER -> Raised("HTTPStatusError")

\* tenacity's default retry predicate, retry_if_exception_type(Exception):
\* no retry= argument is given to @retry
retry_predicate(outcome) == IsRaise(outcome)

stop_after_attempt_early(n) == n >= max_attempt_number - 1

stop_after_attempt(n) == n >= max_attempt_number

Max(a, b) == IF a >= b THEN a ELSE b
Min(a, b) == IF a <= b THEN a ELSE b
RECURSIVE Pow(_, _)
Pow(b, e) == IF e = 0 THEN 1 ELSE b * Pow(b, e - 1)

\* wait_exponential.__call__(retry_state)
wait_exponential(n) ==
    Max(Max(0, wait_min), Min(wait_multiplier * Pow(exp_base, n - 1), wait_max))

\* _log_after_retry logs and returns nothing; tenacity hands the value of
\* retry_error_callback to the caller in place of raising
log_after_retry == PyNone

\* Retrying.iter after an attempt: give the caller the outcome, give the
\* caller the callback's value, or sleep and try again
tenacity_iter(outcome, n) ==
    IF ~retry_predicate(outcome) THEN [do |-> "result", val |-> outcome]
    ELSE IF stop_after_attempt(n) THEN [do |-> "result", val |-> log_after_retry]
    ELSE [do |-> "sleep", val |-> PyNone]

RECURSIVE RetryLoop(_, _)
RetryLoop(rs, n) ==
    LET it == tenacity_iter(AttemptOutcome(rs[n]), n)
    IN  IF it.do = "sleep" /\ n < Len(rs) THEN RetryLoop(rs, n + 1)
        ELSE [ret |-> it.val, attempts |-> n]

\* the whole call, the endpoint answering rs[1], rs[2], ... to the attempts
send_to_bubble(rs) == RetryLoop(rs, 1)

NoResult == [t |-> "pending"]

\* no error response has been handed to the sanitizer
SanitizeIdle ==
    /\ response_text = PyNone
    /\ sanitized = <<>>

SendIdle ==
    /\ spc = "idle"
    /\ attempt_number = 0
    /\ resps = <<>>
    /\ slept = <<>>
    /\ sresult = NoResult
    /\ SanitizeIdle

SendCall ==
    /\ spc = "idle"
    /\ spc' = "attempt"
    /\ attempt_number' = 1
    /\ UNCHANGED <<resps, slept, sresult, response_text, sanitized>>
    /\ UNCHANGED <<storeVars, clientVars, finVars>>

DoAttempt(r) ==
    /\ spc = "attempt"
    /\ resps' = Append(resps, r)
    /\ LET it == tenacity_iter(AttemptOutcome(r), attempt_number)
       IN  IF it.do = "sleep"
           THEN /\ spc' = "sleep"
                /\ slept' = Append(slept, wait_exponential(attempt_number))
                /\ UNCHANGED sresult
           ELSE /\ spc' = "done"
                /\ sresult' = it.val
                /\ UNCHANGED slept
    /\ UNCHANGED <<attempt_number, response_text, sanitized>>
    /\ UNCHANGED <<storeVars, clientVars, finVars>>

\* retry_state.prepare_for_next_attempt() and the sleep
DoSleep ==
    /\ spc = "sleep"
    /\ spc' = "attempt"
    /\ attempt_number' = attempt_number + 1
    /\ UNCHANGED <<resps, slept, sresult, response_text, sanitized>>
    /\ UNCHANGED <<storeVars, clientVars, finVars>>

----------------------------------------------------------------------------
(* The sanitizer of error responses (linkedin_session.py). A text is a    *)
(* Python str, held as the sequence of its lexical pieces: punctuation,   *)
(* white space, string literals, other literals (null, numbers) and       *)
(* characters that start no JSON token. json.loads and json.dumps are      *)
(* modelled by what they do on these pieces.                               *)

Tok(k, v) == [k |-> k, v |-> v]
LBrace == Tok("punct", "{")
RBrace == Tok("punct", "}")
LBracket == Tok("punct", "[")
RBracket == Tok("punct", "]")
Colon == Tok("punct", ":")
Comma == Tok("punct", ",")
Space == Tok("ws", " ")
Junk == Tok("junk", "<")
StrTok(s) == Tok("str", s)
AtomTok(a) == Tok("atom", a)

\* the values json.loads builds: a dict (items in insertion order), a list,
\* and a str, number or None (kept as its literal)
JDict(items) == [t |-> "jdict", items |-> items]
JList(elems) == [t |-> "jlist", elems |-> elems]
JScalar(tok) == [t |-> "jscalar", tok |-> tok]
Pair(key, val) == [key |-> key, val |-> val]
IsJDict(x) == x.t = "jdict"

\* key in d
HasKey(d, key) == \E i \in 1..Len(d.items) : d.items[i].key = key

\* d[key]
GetItem(d, key) ==
    LET i == CHOOSE j \in 1..Len(d.items) : d.items[j].key = key
    IN  d.items[i].val

\* d[key] = val: a key the dict holds keeps its place, a new one goes last
SetItem(d, key, val) ==
    IF HasKey(d, key)
    THEN JDict([i \in 1..Len(d.items) |->
                    IF d.items[i].key = key THEN Pair(key, val) ELSE d.items[i]])
    ELSE JDict(Append(d.items, Pair(key, val)))

\* dict(pairs): a key given twice keeps its last value
RECURSIVE dict_of_pairs(_, _)
dict_of_pairs(pairs, d) ==
    IF pairs = <<>> THEN d
    ELSE dict_of_pairs(Tail(pairs), SetItem(d, Head(pairs).key, Head(pairs).val))

\* json.decoder: the index of the first piece at or after idx that is not white space
RECURSIVE skip_whitespace(_, _)
skip_whitespace(toks, idx) ==
    IF idx <= Len(toks) /\ toks[idx].k = "ws" THEN skip_whitespace(toks, idx + 1)
    ELSE idx

IsPunct(toks, idx, tok) == idx <= Len(toks) /\ toks[idx].k = "punct" /\ toks[idx].v = tok.v

DecodeError == [ok |-> FALSE]
Decoded(val, end) == [ok |-> TRUE, val |-> val, end |-> end]

RECURSIVE scan_once(_, _), JSONObject(_, _, _), JSONArray(_, _, _)

\* json.scanner: the value that starts at idx and the index after it
scan_once(toks, idx) ==
    IF idx > Len(toks) THEN DecodeError
    ELSE IF toks[idx].k \in {"str", "atom"} THEN Decoded(JScalar(toks[idx]), idx + 1)
    ELSE IF IsPunct(toks, idx, LBrace)
         THEN LET nxt == skip_whitespace(toks, idx + 1)
              IN  IF IsPunct(toks, nxt, RBrace) THEN Decoded(JDict(<<>>), nxt + 1)
                  ELSE JSONObject(toks, nxt, <<>>)
    ELSE IF IsPunct(toks, idx, LBracket)
         THEN LET nxt == skip_whitespace(toks, idx + 1)
              IN  IF IsPunct(toks, nxt, RBracket) THEN Decoded(JList(<<>>), nxt + 1)
                  ELSE JSONArray(toks, nxt, <<>>)
    ELSE DecodeError

\* json.decoder.JSONObject: idx is at a key; pairs are the members read so far
JSONObject(toks, idx, pairs) ==
    IF idx > Len(toks) \/ toks[idx].k # "str" THEN DecodeError
    ELSE LET colon == skip_whitespace(toks, idx + 1)
         IN  IF ~IsPunct(toks, colon, Colon) THEN DecodeError
             ELSE LET value == scan_once(toks, skip_whitespace(toks, colon + 1))
                  IN  IF ~value.ok THEN DecodeError
                      ELSE LET pairs2 == Append(pairs, Pair(toks[idx].v, value.val))
                               end == skip_whitespace(toks, value.end)
                           IN  IF IsPunct(toks, end, RBrace)
                               THEN Decoded(dict_of_pairs(pairs2, JDict(<<>>)), end + 1)
                               ELSE IF IsPunct(toks, end, Comma)
                               THEN JSONObject(toks, skip_whitespace(toks, end + 1), pairs2)
                               ELSE DecodeError

\* json.decoder.JSONArray: idx is at an element; values are the elements read so far
JSONArray(toks, idx, values) ==
    LET value == scan_once(toks, idx)
    IN  IF ~value.ok THEN DecodeError
        ELSE LET values2 == Append(values, value.val)
                 end == skip_whitespace(toks, value.end)
             IN  IF IsPunct(toks, end, RBracket) THEN Decoded(JList(values2), end + 1)
                 ELSE IF IsPunct(toks, end, Comma)
                 THEN JSONArray(toks, skip_whitespace(toks, end + 1), values2)
                 ELSE DecodeError

\* sys.getrecursionlimit() of the interpreter, 1000 unless it is set
recursion_limit == 1000

\* the scanner goes one call deeper with every "[" it reads (Py_EnterRecursiveCall);
\* a text that starts with more of them than the interpreter has frames stops
\* it on the way down, before it has read anything else
DescendsPast(toks, limit) ==
    /\ Len(toks) > limit
    /\ \A i \in 1..(limit + 1) : IsPunct(toks, i, LBracket)

\* json.loads(s): one value, white space around it allowed, nothing else after it
JSONDecoder_decode(s) ==
    IF DescendsPast(s.s, recursion_limit) THEN Raised("RecursionError")
    ELSE LET obj == scan_once(s.s, skip_whitespace(s.s, 1))
         IN  IF obj.ok /\ skip_whitespace(s.s, obj.end) > Len(s.s) THEN obj.val
             ELSE Raised("JSONDecodeError")

\* the separators of json.dumps: (item_separator, key_separator)
default_separators == [item |-> <<Comma, Space>>, key |-> <<Colon, Space>>]
compact_separators == [item |-> <<Comma>>, key |-> <<Colon>>]

RECURSIVE iterencode(_, _), iterencode_dict(_, _, _), iterencode_list(_, _, _)

\* json.encoder: the pieces of the text of o
iterencode(o, separators) ==
    CASE o.t = "jscalar" -> <<o.tok>>
      [] o.t = "jdict" -> <<LBrace>> \o iterencode_dict(o.items, separators, 1) \o <<RBrace>>
      [] o.t = "jlist" -> <<LBracket>> \o iterencode_list(o.elems, separators, 1) \o <<RBracket>>

iterencode_dict(items, separators, i) ==
    IF i > Len(items) THEN <<>>
    ELSE (IF i > 1 THEN separators.item ELSE <<>>)
         \o <<StrTok(items[i].key)>> \o separators.key
         \o iterencode(items[i].val, separators)
         \o iterencode_dict(items, separators, i + 1)

iterencode_list(elems, separators, i) ==
    IF i > Len(elems) THEN <<>>
    ELSE (IF i > 1 THEN separators.item ELSE <<>>)
         \o iterencode(elems[i], separators)
         \o iterencode_list(elems, separators, i + 1)

\* json.dumps(obj)
JSONEncoder_encode(obj) == PyStr(iterencode(obj, default_separators))

REDACTED == JScalar(StrTok("[REDACTED]"))

\* data["li_at"] = "[REDACTED]" where data is a dict that has the key
redact_li_at(data) ==
    IF IsJDict(data) /\ HasKey(data, "li_at") THEN SetItem(data, "li_at", REDACTED)
    ELSE data

\* the nested field left as it is
redact_top_level_only(data) == data

\* data["offending_payload"]["li_at"] = "[REDACTED]" where both are dicts with the key
redact_offending_payload(data) ==
    IF /\ IsJDict(data)
       /\ HasKey(data, "offending_payload")
       /\ IsJDict(GetItem(data, "offending_payload"))
       /\ HasKey(GetItem(data, "offending_payload"), "li_at")
    THEN SetItem(data, "offending_payload",
                 SetItem(GetItem(data, "offending_payload"), "li_at", REDACTED))
    ELSE data

\* _sanitize_error_response(response_text): the except clause names
\* json.JSONDecodeError, any other exception of json.loads leaves the function
sanitize_error_response(text) ==
    LET data == JSONDecoder_decode(text)
    IN  IF IsRaise(data)
        THEN IF data.exc = "JSONDecodeError" THEN text ELSE data
        ELSE JSONEncoder_encode(redact_offending_payload(redact_li_at(data)))

\* the most members an object of a response text has
MaxMembers == 2

\* the values the fields of a response text have
SecretValue == JScalar(StrTok("sensitive_cookie_value"))
FieldValues ==
    {SecretValue,
     JScalar(AtomTok("null")),
     JDict(<<>>),
     JDict(<<Pair("li_at", SecretValue)>>),
     JDict(<<Pair("li_at", SecretValue), Pair("userAgent", JScalar(StrTok("test-agent")))>>),
     JList(<<SecretValue>>)}
FieldNames == {"li_at", "offending_payload", "error"}
Fields == {Pair(k, v) : k \in FieldNames, v \in FieldValues}

\* what a text is written from: a value, or an object whose members are
\* written as given (a name may come twice)
Documents ==
    FieldValues \cup {JDict(ms) : ms \in UNION {[1..n -> Fields] : n \in 0..MaxMembers}}

\* how the text departs from what json.dumps writes
Layouts == {"plain", "padded", "truncated", "junk", "extra"}
LaidOut(toks, layout) ==
    CASE layout = "plain" -> toks
      [] layout = "padded" -> <<Space>> \o toks \o <<Space>>
      [] layout = "truncated" -> SubSeq(toks, 1, Len(toks) - 1)
      [] layout = "junk" -> <<Junk>> \o toks
      [] layout = "extra" -> toks \o <<Comma>>

\* a text of nothing but "[", more of them than recursion_limit
DeepText == PyStr([i \in 1..(recursion_limit + 1) |-> LBracket])

\* the texts e.response.text takes
ResponseTexts ==
    {PyStr(LaidOut(iterencode(d, sep), layout)) :
        d \in Documents, sep \in {default_separators, compact_separators},
        layout \in Layouts}
    \cup {DeepText}

\* the applications of the function to its own result that are followed
MaxApplications == 2

Sanitize ==
    /\ Len(sanitized) < MaxApplications
    /\ LET arg == IF sanitized = <<>> THEN response_text ELSE sanitized[Len(sanitized)]
       IN  \* an exception of the inner call leaves the whole expression
           sanitized' = Append(sanitized,
                               IF IsRaise(arg) THEN arg ELSE sanitize_error_response(arg))
    /\ UNCHANGED <<spc, attempt_number, resps, slept, sresult, response_text>>
    /\ UNCHANGED <<storeVars, clientVars, finVars>>

----------------------------------------------------------------------------
(* Callers of the store API. Every method is synchronous and runs as one  *)
(* step; a claim_session call is first made (its request is in flight)    *)
(* and then runs, so that claims of several callers overlap.              *)

\* a finalize request that has not arrived yet
NewProcessor ==
    [pc |-> "idle",                \* where the request is
     session_id |-> NoId,          \* request.session_id
     session_details |-> PyNone,   \* self.session_details
     playwright |-> "unset",       \* self.playwright: "unset", "created", "started", "stopped"
     browser |-> "None",           \* self.browser: "None", "connected", "closed"
     exc |-> "none",               \* the exception the request ended with
     status |-> 0,                 \* the HTTP status answered, 0 while there is none
     gw_calls |-> 0,               \* history: calls of get_session_connect_url
     torn_down |-> FALSE,          \* history: __aexit__ ran to its end
     yielded |-> FALSE,            \* history: __aenter__ returned the page
     captured |-> PyNone,          \* captured_data, the value of extract_session_data
     delivery |-> "-",             \* history: "accepted" or "rejected" by the Bubble endpoint
     claim_saw |-> "-"]            \* history: what the store held when claim_session ran

\* an internal id that uuid4 has not drawn yet
NoStart == [outcome |-> "unused", stored |-> PyNone, response |-> PyNone]

FinalizeIdle ==
    /\ proc = [f \in Finalizers |-> NewProcessor]
    /\ starts = [i \in Ids |-> NoStart]

outsideStore == <<sendVars, finVars>>

NoHist == [fresh |-> PyNone, claims |-> 0, wins |-> 0, lost |-> FALSE]

\* the history of an id after a completed operation
HistAfter(h, name, data, ret, valid) ==
    CASE IsRaise(ret) -> h
      [] name = "store" -> [fresh |-> data, claims |-> 0, wins |-> 0, lost |-> FALSE]
      [] name = "claim" -> [fresh |-> PyNone,
                            claims |-> IF h.claims < 2 THEN h.claims + 1 ELSE h.claims,
                            wins |-> IF IsDict(ret) /\ h.wins < 2 THEN h.wins + 1 ELSE h.wins,
                            lost |-> h.lost \/ (valid /\ ~IsDict(ret))]
      [] name \in {"remove", "expire"} -> [h EXCEPT !.fresh = PyNone, !.wins = 0, !.lost = FALSE]
      [] OTHER -> h

\* the effect of a completed store call on the store and the history
Finish(name, id, data, r, valid) ==
    /\ lastRet' = r.ret
    /\ hist' = [hist EXCEPT ![id] = HistAfter(@, name, data, r.ret, valid)]
    /\ cvalid' = [d \in Clients |->
                    IF cid[d] = id /\ ~IsRaise(r.ret) /\ name \in {"store", "remove"}
                    THEN FALSE ELSE cvalid[d]]
    /\ sessions' = r.sessions
    /\ redis_kv' = r.kv
    /\ UNCHANGED <<backend, now>>

Store(id, data) ==
    /\ \E up \in UpChoices : Finish("store", id, data, store_session(id, data, up), FALSE)
    /\ UNCHANGED <<cpc, cid>>
    /\ UNCHANGED outsideStore

Get(id) ==
    /\ \E up \in UpChoices : Finish("get", id, PyNone, get_session(id, up), FALSE)
    /\ UNCHANGED <<cpc, cid>>
    /\ UNCHANGED outsideStore

Remove(id) ==
    /\ \E up \in UpChoices : Finish("remove", id, PyNone, remove_session(id, up), FALSE)
    /\ UNCHANGED <<cpc, cid>>
    /\ UNCHANGED outsideStore

CheckConnection(ping) ==
    /\ lastRet' = check_connection(ping)
    /\ UNCHANGED <<storeVars, cpc, cid, cvalid, hist>>
    /\ UNCHANGED outsideStore

CallClaim(c, id) ==
    /\ cpc[c] = "idle"
    /\ cpc' = [cpc EXCEPT ![c] = "pending"]
    /\ cid' = [cid EXCEPT ![c] = id]
    /\ cvalid' = [cvalid EXCEPT ![c] = Holds(id)]
    /\ UNCHANGED <<storeVars, lastRet, hist>>
    /\ UNCHANGED outsideStore

Claim(c) ==
    /\ cpc[c] = "pending"
    /\ \E up \in UpChoices :
          /\ lastRet' = claim_session(cid[c], up).ret
          /\ hist' = [hist EXCEPT ![cid[c]] =
                        HistAfter(@, "claim", PyNone, claim_session(cid[c], up).ret, cvalid[c])]
          /\ sessions' = claim_session(cid[c], up).sessions
          /\ redis_kv' = claim_session(cid[c], up).kv
    /\ cpc' = [cpc EXCEPT ![c] = "idle"]
    /\ cid' = [cid EXCEPT ![c] = NoId]
    /\ cvalid' = [cvalid EXCEPT ![c] = FALSE]
    /\ UNCHANGED <<backend, now>>
    /\ UNCHANGED outsideStore

\* time passes; Redis drops the keys whose time-to-live has run out
Tick ==
    /\ backend = "redis"
    /\ now < MaxNow
    /\ now' = now + TickStep
    /\ redis_kv' = Live(redis_kv, now')
    /\ LET gone == (DOMAIN redis_kv) \ (DOMAIN redis_kv')
       IN  /\ hist' = [i \in Ids |-> IF i \in gone
                                     THEN HistAfter(hist[i], "expire", PyNone, PyNone, FALSE)
                                     ELSE hist[i]]
           /\ cvalid' = [c \in Clients |-> IF cid[c] \in gone THEN FALSE ELSE cvalid[c]]
    /\ UNCHANGED <<backend, sessions, cpc, cid, lastRet>>
    /\ UNCHANGED outsideStore

\* time passes for the in-memory variant: InMemorySessionManager has no
\* timer and no expiry, so its dict stays as it is
Elapse ==
    /\ backend = "memory"
    /\ now < MaxNow
    /\ now' = now + TickStep
    /\ UNCHANGED <<backend, sessions, redis_kv, clientVars>>
    /\ UNCHANGED outsideStore

InitStore ==
    /\ backend \in {"memory", "redis"}
    /\ sessions = EmptyDict
    /\ redis_kv = EmptyDict
    /\ now = 0
    /\ cpc = [c \in Clients |-> "idle"]
    /\ cid = [c \in Clients |-> NoId]
    /\ cvalid = [c \in Clients |-> FALSE]
    /\ lastRet = PyNone
    /\ hist = [i \in Ids |-> NoHist]
    /\ SendIdle
    /\ FinalizeIdle

NextStore ==
    \/ \E id \in Ids, data \in Records : Store(id, data)
    \/ \E id \in Ids : Get(id)
    \/ \E id \in Ids : Remove(id)
    \/ \E c \in Clients, id \in Ids : CallClaim(c, id)
    \/ \E c \in Clients : Claim(c)
    \/ Tick

SpecStore == InitStore /\ [][NextStore]_vars

----------------------------------------------------------------------------
(* The endpoints of app.py and the SessionProcessor context manager *)

\* the except clauses of finalize_session_endpoint
finalize_status(exc) ==
    CASE exc = "SessionNotFoundError" -> 404
      [] exc = "ServiceUnavailableError" -> 503
      [] exc \in {"BrowserbaseError", "RequestError", "ValueError"} -> 502
      [] OTHER -> 500

(* HTTP responses: a status and a body, the body a sequence of items     *)
(* [name, kind, val]. kind says where the text comes from: "literal" is  *)
(* text written in the handler or at the raise statement of one of the   *)
(* service's own exceptions, "value" is data (an id, a URL), "exception" *)
(* is the text a library's exception carries, "bool" and "int" are JSON  *)
(* booleans and numbers                                                  *)

Item(name, kind, val) == [name |-> name, kind |-> kind, val |-> val]
HttpResponse(status, body) == [t |-> "http", status |-> status, body |-> body]

\* str(e) for the exceptions that reach the except clauses of the endpoints
str_e(name, exc, session_id) ==
    CASE exc = "SessionNotFoundError" ->
             <<Item(name, "literal", "Session not found or already processed: "),
               Item(name, "value", session_id)>>
      [] exc = "ServiceUnavailableError" ->
             <<Item(name, "literal", "Session store is unavailable.")>>
      [] exc = "ValueError" ->
             <<Item(name, "literal",
                    "Could not find 'li_at' cookie. Login may have failed or timed out.")>>
      [] OTHER -> <<Item(name, "exception", exc)>>

\* the detail of the HTTPException raised by finalize_session_endpoint
finalize_detail(exc, session_id) ==
    CASE exc \in {"SessionNotFoundError", "ServiceUnavailableError"} ->
             str_e("detail", exc, session_id)
      [] exc \in {"BrowserbaseError", "RequestError", "ValueError"} ->
             <<Item("detail", "literal",
                    "An external service or data processing error occurred: ")>>
               \o str_e("detail", exc, session_id)
      [] OTHER -> <<Item("detail", "literal",
                         "An unexpected error occurred during finalization.")>>

finalize_summary_raw(captured_data) ==
    <<Item("message", "literal", "Session finalized successfully."),
      Item("captured_data.li_at", "value", DictLookup(captured_data.v, "li_at", "")),
      Item("captured_data.userAgent_length", "int",
           Len(DictLookup(captured_data.v, "userAgent", "")))>>

\* the dict returned by finalize_session_endpoint
finalize_summary(captured_data) ==
    <<Item("message", "literal", "Session finalized successfully."),
      Item("captured_data.li_at_present", "bool", "li_at" \in DOMAIN captured_data.v),
      Item("captured_data.userAgent_length", "int",
           Len(DictLookup(captured_data.v, "userAgent", "")))>>

\* what the client of a finished finalize request receives
finalize_response(p) ==
    IF p.exc = "none"
    THEN HttpResponse(p.status, finalize_summary(p.captured))
    ELSE HttpResponse(p.status, finalize_detail(p.exc, p.session_id))

\* SessionProcessor.__aexit__: browser.close() is commented out, so the
\* browser handle is left as it is; the playwright context manager is exited
\* if the attribute was ever set
aexit(p) ==
    [p EXCEPT !.playwright = IF @ # "unset" THEN "stopped" ELSE @,
              !.torn_down = TRUE]

aenter_except_generic(p, exc) == [aexit(p) EXCEPT !.exc = exc]

\* an Exception inside the try of __aenter__: a RedisError becomes
\* ServiceUnavailableError, anything else runs __aexit__ and is re-raised
aenter_except(p, exc) ==
    IF exc = "RedisError"
    THEN [p EXCEPT !.exc = "ServiceUnavailableError"]
    ELSE [aexit(p) EXCEPT !.exc = exc]

\* the request ends with an answer derived from the exception
Answer(p) ==
    [p EXCEPT !.pc = "done", !.status = finalize_status(p.exc)]

body_raises_no_exit(p, exc) == Answer([p EXCEPT !.exc = exc])

\* an exception raised inside the async with body: __aexit__, then the answer
body_raises(p, exc) == Answer([aexit(p) EXCEPT !.exc = exc])

not_found_check_skipped(ret) == "ok"

\* what __aenter__ does with the value of claim_session
claim_check(ret) ==
    IF IsRaise(ret) THEN ret.exc
    ELSE IF ~Truthy(ret) THEN "SessionNotFoundError"
    ELSE "ok"

\* what the client of a start request receives: the dict of the return
\* statement, or the HTTPException of the except clause that caught exc
start_response(exc, internal_session_id, session_details) ==
    CASE exc = "none" ->
             HttpResponse(200,
                 <<Item("message", "literal",
                        "Session created and LinkedIn login page opened. Please use the debugger URL to log in."),
                   Item("session_id", "value", internal_session_id),
                   Item("debugger_url", "value", session_details.v.debugger_url),
                   Item("status", "literal", "ready_for_login")>>)
      [] exc \in {"BrowserbaseError", "RedisError"} ->
             HttpResponse(503,
                 <<Item("detail", "literal", "A required external service is unavailable.")>>)
      [] OTHER ->
             HttpResponse(500, <<Item("detail", "literal", "An unexpected error occurred.")>>)

\* POST /start-session: create_new_session (gw is how the Gateway call
\* ends), uuid4 (an id no start has drawn), store_session, then the
\* attempt to open the login page, whose handles are locals that are dropped
\* and whose failure is logged and swallowed, and the response. A start
\* whose Gateway call fails draws no id and leaves no trace
StartSession(id, b) ==
    /\ starts[id].outcome = "unused"
    /\ \E gw \in {"ok", "BrowserbaseError", "Exception"}, up \in UpChoices :
          IF gw # "ok"
          THEN UNCHANGED <<sessions, redis_kv, starts>>
          ELSE LET session_details == SessionDetails(b)
                   r == store_session(id, session_details, up)
               IN  /\ sessions' = r.sessions
                   /\ redis_kv' = r.kv
                   /\ starts' = [starts EXCEPT ![id] =
                         IF IsRaise(r.ret)
                         THEN [outcome |-> "discarded", stored |-> PyNone,
                               response |-> start_response(r.ret.exc, id, session_details)]
                         ELSE [outcome |-> "issued", stored |-> session_details,
                               response |-> start_response("none", id, session_details)]]
    /\ UNCHANGED <<backend, now, proc, clientVars, sendVars>>

\* the object that calling an async function without await gives
Coroutine(fn) == [t |-> "coroutine", fn |-> fn]

\* check_browserbase_api when it is awaited. Browserbase is the synchronous
\* client (create_new_session and get_session_connect_url read the results
\* of sessions.create and sessions.retrieve without await): sessions.list()
\* raises BrowserbaseError, which is caught, or returns the listing, and
\* await applied to that value raises TypeError, which is not caught
check_browserbase_api(gw_ok) ==
    IF gw_ok THEN Raised("TypeError") ELSE PyBool(FALSE)

\* a caller awaits check_browserbase_api(settings)
CheckBrowserbase(gw_ok) ==
    /\ lastRet' = check_browserbase_api(gw_ok)
    /\ UNCHANGED <<storeVars, cpc, cid, cvalid, hist>>
    /\ UNCHANGED <<sendVars, finVars>>

Healthy(x) == IF Truthy(x) THEN "healthy" ELSE "unhealthy"

\* the response of health_check_endpoint for the two values it tests
health_response(redis_healthy, browserbase_healthy) ==
    IF Truthy(redis_healthy) /\ Truthy(browserbase_healthy)
    THEN HttpResponse(200,
             <<Item("status", "literal", "ok"),
               Item("dependencies.redis", "literal", "healthy"),
               Item("dependencies.browserbase", "literal", "healthy")>>)
    ELSE HttpResponse(503,
             <<Item("detail.status", "literal", "error"),
               Item("detail.dependencies.redis", "literal", Healthy(redis_healthy)),
               Item("detail.dependencies.browserbase", "literal", Healthy(browserbase_healthy))>>)

\* GET /health, the PING ending as ping says and the Gateway being available
\* or not (gw_ok): check_connection(), whose exception, if it raises, leaves
\* the handler and is answered 500 by the framework; then
\* check_browserbase_api(settings) called without await, so the value tested
\* is the coroutine object and the Gateway is never asked
Health(ping, gw_ok) ==
    /\ LET redis_healthy == check_connection(ping)
           browserbase_healthy == Coroutine("check_browserbase_api")
       IN  lastRet' = IF IsRaise(redis_healthy)
                      THEN HttpResponse(500, <<Item("detail", "literal", "Internal Server Error")>>)
                      ELSE health_response(redis_healthy, browserbase_healthy)
    /\ UNCHANGED <<storeVars, cpc, cid, cvalid, hist>>
    /\ UNCHANGED outsideStore

\* POST /finalize-session arrives
Begin(f, id) ==
    /\ proc[f].pc = "idle"
    /\ proc' = [proc EXCEPT ![f] = [@ EXCEPT !.pc = "claim", !.session_id = id]]
    /\ UNCHANGED <<storeVars, starts, clientVars, sendVars>>

\* __aenter__: claim_session and the test of its result
FClaim(f) ==
    /\ proc[f].pc = "claim"
    /\ \E up \in UpChoices :
          LET r == claim_session(proc[f].session_id, up)
              saw == IF ~up THEN "unreachable"
                     ELSE IF Holds(proc[f].session_id) THEN "held" ELSE "absent"
              p == [proc[f] EXCEPT !.claim_saw = saw]
              chk == claim_check(r.ret)
          IN  /\ sessions' = r.sessions
              /\ redis_kv' = r.kv
              /\ proc' = [proc EXCEPT ![f] =
                            IF chk = "ok"
                            THEN [p EXCEPT !.pc = "resolve", !.session_details = r.ret]
                            ELSE Answer(aenter_except(
                                     [p EXCEPT !.session_details = IF IsRaise(r.ret) THEN PyNone ELSE r.ret],
                                     chk))]
    /\ UNCHANGED <<backend, now, starts, clientVars, sendVars>>

\* __aenter__: get_session_connect_url, then self.playwright = async_playwright()
FResolve(f) ==
    /\ proc[f].pc = "resolve"
    /\ \E ok \in BOOLEAN :
          LET p == [proc[f] EXCEPT !.gw_calls = @ + 1]
          IN  proc' = [proc EXCEPT ![f] =
                         IF ok THEN [p EXCEPT !.pc = "pw_start", !.playwright = "created"]
                         ELSE Answer(aenter_except(p, "BrowserbaseError"))]
    /\ UNCHANGED <<storeVars, starts, clientVars, sendVars>>

\* __aenter__: await self.playwright.__aenter__()
FPwStart(f) ==
    /\ proc[f].pc = "pw_start"
    /\ \E ok \in BOOLEAN :
          proc' = [proc EXCEPT ![f] =
                     IF ok THEN [@ EXCEPT !.pc = "connect", !.playwright = "started"]
                     ELSE Answer(aenter_except(@, "PlaywrightError"))]
    /\ UNCHANGED <<storeVars, starts, clientVars, sendVars>>

\* __aenter__: connect_over_cdp, then return self.browser.contexts[0].pages[0]
FConnect(f) ==
    /\ proc[f].pc = "connect"
    /\ \E out \in {"page", "no_page", "fail"} :
          proc' = [proc EXCEPT ![f] =
                     CASE out = "fail" -> Answer(aenter_except(@, "PlaywrightError"))
                       [] out = "no_page" ->
                            Answer(aenter_except([@ EXCEPT !.browser = "connected"], "IndexError"))
                       [] OTHER -> [@ EXCEPT !.browser = "connected", !.pc = "goto", !.yielded = TRUE]]
    /\ UNCHANGED <<storeVars, starts, clientVars, sendVars>>

\* body of the async with: page.goto
FGoto(f) ==
    /\ proc[f].pc = "goto"
    /\ \E ok \in BOOLEAN :
          proc' = [proc EXCEPT ![f] =
                     IF ok THEN [@ EXCEPT !.pc = "extract"] ELSE body_raises(@, "PlaywrightError")]
    /\ UNCHANGED <<storeVars, starts, clientVars, sendVars>>

\* the cookies of the page's browser context and the browser's user agent
AuthTokens == {"AQEDAR-secret"}
UserAgents == {"Mozilla/5.0"}
Cookie(name, value) == [name |-> name, value |-> value]
CookieJars ==
    {<<>>, <<Cookie("JSESSIONID", "ajax:1")>>}
      \cup {<<Cookie("JSESSIONID", "ajax:1"), Cookie("li_at", t)>> : t \in AuthTokens}

\* next((c for c in cookies if c['name'] == 'li_at'), None)
first_li_at(cookies) ==
    LET hits == {i \in 1..Len(cookies) : cookies[i].name = "li_at"}
    IN  IF hits = {} THEN PyNone
        ELSE PyDict(cookies[CHOOSE i \in hits : \A j \in hits : i <= j])

extract_without_check(cookies, user_agent) ==
    LET li_at_cookie == first_li_at(cookies)
    IN  PyDict([li_at |-> IF IsDict(li_at_cookie) THEN li_at_cookie.v.value ELSE "",
                userAgent |-> user_agent])

\* extract_session_data(page)
extract_session_data(cookies, user_agent) ==
    LET li_at_cookie == first_li_at(cookies)
    IN  IF ~Truthy(li_at_cookie) THEN Raised("ValueError")
        ELSE PyDict([li_at |-> li_at_cookie.v.value, userAgent |-> user_agent])

\* body of the async with: extract_session_data
FExtract(f) ==
    /\ proc[f].pc = "extract"
    /\ \E cookies \in CookieJars, ua \in UserAgents :
          LET captured_data == extract_session_data(cookies, ua)
          IN  proc' = [proc EXCEPT ![f] =
                         IF IsRaise(captured_data) THEN body_raises(@, captured_data.exc)
                         ELSE [@ EXCEPT !.pc = "send", !.captured = captured_data]]
    /\ UNCHANGED <<storeVars, starts, clientVars, sendVars>>

\* the answers the endpoint gives a finalize: one of each kind
FinalizeResponses == {Http(200), Http(400), Http(500), NetError}

\* body of the async with: send_to_bubble, the summary, and __aexit__
FSend(f) ==
    /\ proc[f].pc = "send"
    /\ \E rs \in [1..max_attempt_number -> FinalizeResponses] :
          LET sent == send_to_bubble(rs)
              p == [proc[f] EXCEPT !.delivery =
                       IF Is2xx(rs[sent.attempts]) THEN "accepted" ELSE "rejected"]
          IN  proc' = [proc EXCEPT ![f] =
                         IF IsRaise(sent.ret) THEN body_raises(p, sent.ret.exc)
                         ELSE [aexit(p) EXCEPT !.pc = "done", !.status = 200]]
    /\ UNCHANGED <<storeVars, starts, clientVars, sendVars>>

\* the request's task is cancelled while it waits. CancelledError is not
\* an Exception: inside __aenter__ no except clause catches it and
\* __aexit__ does not run; inside the body the async with runs __aexit__
FCancel(f) ==
    /\ proc[f].pc \in {"pw_start", "connect", "goto", "extract", "send"}
    /\ proc' = [proc EXCEPT ![f] =
                  IF @.pc \in {"pw_start", "connect"}
                  THEN [@ EXCEPT !.pc = "cancelled", !.exc = "CancelledError"]
                  ELSE [aexit(@) EXCEPT !.pc = "cancelled", !.exc = "CancelledError"]]
    /\ UNCHANGED <<storeVars, starts, clientVars, sendVars>>

Init ==
    /\ backend \in {"memory", "redis"}
    /\ sessions = EmptyDict
    /\ redis_kv = EmptyDict
    /\ now = 0
    /\ cpc = [c \in Clients |-> "idle"]
    /\ cid = [c \in Clients |-> NoId]
    /\ cvalid = [c \in Clients |-> FALSE]
    /\ lastRet = PyNone
    /\ hist = [i \in Ids |-> NoHist]
    /\ SendIdle
    /\ FinalizeIdle

Next ==
    \/ \E id \in Ids, b \in ProviderIds : StartSession(id, b)
    \/ \E f \in Finalizers, id \in Ids : Begin(f, id)
    \/ \E f \in Finalizers : FClaim(f)
    \/ \E f \in Finalizers : FResolve(f)
    \/ \E f \in Finalizers : FPwStart(f)
    \/ \E f \in Finalizers : FConnect(f)
    \/ \E f \in Finalizers : FGoto(f)
    \/ \E f \in Finalizers : FExtract(f)
    \/ \E f \in Finalizers : FSend(f)
    \/ \E f \in Finalizers : FCancel(f)
    \/ Tick

Spec == Init /\ [][Next]_vars

\* the service answering start and health requests while time passes, and
\* callers of the two liveness probes
NextHealth ==
    \/ \E ping \in PingChoices, gw_ok \in BOOLEAN : Health(ping, gw_ok)
    \/ \E ping \in PingChoices : CheckConnection(ping)
    \/ \E gw_ok \in BOOLEAN : CheckBrowserbase(gw_ok)
    \/ \E id \in Ids, b \in ProviderIds : StartSession(id, b)
    \/ Tick

SpecHealth == Init /\ [][NextHealth]_vars

\* records and time: starts store records, the clock runs in both variants,
\* get_session reads and finalize requests claim
NextTTL ==
    \/ \E id \in Ids, b \in ProviderIds : StartSession(id, b)
    \/ \E id \in Ids : Get(id)
    \/ \E f \in Finalizers, id \in Ids : Begin(f, id)
    \/ \E f \in Finalizers : FClaim(f)
    \/ Tick
    \/ Elapse

SpecTTL == Init /\ [][NextTTL]_vars

InitSend ==
    /\ backend = "memory"
    /\ sessions = EmptyDict
    /\ redis_kv = EmptyDict
    /\ now = 0
    /\ cpc = [c \in Clients |-> "idle"]
    /\ cid = [c \in Clients |-> NoId]
    /\ cvalid = [c \in Clients |-> FALSE]
    /\ lastRet = PyNone
    /\ hist = [i \in Ids |-> NoHist]
    /\ SendIdle
    /\ FinalizeIdle

NextSend ==
    \/ SendCall
    \/ \E r \in Responses : DoAttempt(r)
    \/ DoSleep

SpecSend == InitSend /\ [][NextSend]_vars

\* the sanitizer alone, given any of the response texts
InitSanitize ==
    /\ backend = "memory"
    /\ sessions = EmptyDict
    /\ redis_kv = EmptyDict
    /\ now = 0
    /\ cpc = [c \in Clients |-> "idle"]
    /\ cid = [c \in Clients |-> NoId]
    /\ cvalid = [c \in Clients |-> FALSE]
    /\ lastRet = PyNone
    /\ hist = [i \in Ids |-> NoHist]
    /\ spc = "idle"
    /\ attempt_number = 0
    /\ resps = <<>>
    /\ slept = <<>>
    /\ sresult = NoResult
    /\ response_text \in ResponseTexts
    /\ sanitized = <<>>
    /\ FinalizeIdle

NextSanitize == Sanitize

SpecSanitize == InitSanitize /\ [][NextSanitize]_vars

\* every post ends (answer, connection failure or httpx timeout) and every
\* sleep ends, so a call that is under way takes its next step
SpecSendLive == InitSend /\ [][NextSend]_vars /\ WF_vars(NextSend)

----------------------------------------------------------------------------
(* Claims about the store *)

\* C1: in both variants, a claim_session(id) that runs right after
\* store_session(id, R) returns R, and a claim_session(id) that runs after an
\* earlier claim_session(id), with no store_session(id, .) in between, returns
\* None.
C1_ClaimTwice ==
    [][\A c \in Clients :
          (Claim(c) /\ ~IsRaise(lastRet')) =>
              /\ (hist[cid[c]].fresh # PyNone => lastRet' = hist[cid[c]].fresh)
              /\ (hist[cid[c]].claims > 0 => lastRet' = PyNone)]_vars

\* two claims ran one after the other since the store: the first got the
\* record, the second got None
C1_Witness ==
    \E id \in Ids :
        /\ backend = "redis"
        /\ hist[id].claims = 2 /\ hist[id].wins = 1 /\ ~hist[id].lost
        /\ lastRet = PyNone

\* C2: of the claim_session(id) calls in flight together on an id that holds a
\* record, exactly one returns the record and every other returns None, in
\* every interleaving.
C2_ConcurrentClaims ==
    \A id \in Ids :
        /\ hist[id].wins <= 1
        /\ hist[id].lost => hist[id].wins = 1

\* a claim made while the record was held came back with None, because a
\* claim that overlapped it took the record
C2_Witness ==
    \E id \in Ids : hist[id].lost /\ hist[id].wins = 1 /\ hist[id].claims = 2

\* C15: in both variants get_session(id) gives a record equal to R after
\* store_session(id, R) while no claim or remove came between, gives None for
\* an id with no record, and leaves the store as it was.
C15_GetRoundTrip ==
    [][\A id \in Ids :
          (Get(id) /\ lastRet' # Raised("RedisError")) =>
              /\ (hist[id].fresh # PyNone => lastRet' = hist[id].fresh)
              /\ (~Holds(id) => lastRet' = PyNone)
              /\ UNCHANGED <<sessions, redis_kv>>]_vars

----------------------------------------------------------------------------
(* Claims about the delivery client *)

\* C8: when all 3 attempts fail with retryable errors (5xx or transport
\* errors), send_to_bubble has made exactly 3 attempts and its caller
\* observes an error, not a normal return.
C8_ExhaustedIsFailure ==
    (spc = "done" /\ \A i \in 1..Len(resps) : Retryable(resps[i])) =>
        (Len(resps) = 3 /\ IsRaise(sresult))

\* C9: a 4xx answer is terminal: no attempt follows it, and the call ends
\* in failure.
C9_ClientErrorTerminal ==
    \A i \in 1..Len(resps) :
        Is4xx(resps[i]) => (i = Len(resps) /\ spc = "done" /\ IsRaise(sresult))

\* the loop is never over after a retryable failure on attempt 1 or 2, and
\* a 2xx answer is the last one and gives a normal return
C10_Safety ==
    /\ Len(resps) <= 3
    /\ attempt_number <= 3
    /\ \A k \in 1..Len(resps) :
          /\ (k < 3 /\ Retryable(resps[k])) => (spc # "done" \/ Len(resps) > k)
          /\ Is2xx(resps[k]) => (k = Len(resps) /\ spc = "done" /\ sresult = PyNone)

\* C10: at most 3 attempts are made; a 5xx answer or a transport error on
\* attempt k < 3 is followed by attempt k + 1; a 2xx answer ends the loop
\* with a normal return.
C10_RetryLoop ==
    /\ []C10_Safety
    /\ \A k \in 1..2 :
          (Len(resps) = k /\ Retryable(resps[k])) ~> (Len(resps) = k + 1)

\* the answers 500, 500, 200: three attempts and a normal return
C10_Witness ==
    /\ resps = <<Http(500), Http(500), Http(200)>>
    /\ spc = "done"
    /\ sresult = PyNone

----------------------------------------------------------------------------
(* Claims about the endpoints *)

\* finalize f obtained the record of its id
Won(f) == IsDict(proc[f].session_details)

\* the value of the item called name in the body of an HTTP response
Field(resp, name) ==
    resp.body[CHOOSE i \in 1..Len(resp.body) : resp.body[i].name = name].val

\* C16: health answers ok exactly when check_connection() and the Gateway
\* probe both report healthy; otherwise it answers 503 with a breakdown that
\* marks each dependency with the result of its own probe.
C16_HealthIsAnd ==
    [][\A ping \in {"PONG", "ConnectionError"}, gw_ok \in BOOLEAN :
          (ping \in PingChoices /\ Health(ping, gw_ok)) =>
              LET store_ok == Truthy(check_connection(ping))
                  gateway_ok == gw_ok
              IN  IF store_ok /\ gateway_ok
                  THEN lastRet'.status = 200 /\ Field(lastRet', "status") = "ok"
                  ELSE /\ lastRet'.status = 503
                       /\ Field(lastRet', "detail.dependencies.redis")
                            = (IF store_ok THEN "healthy" ELSE "unhealthy")
                       /\ Field(lastRet', "detail.dependencies.browserbase")
                            = (IF gateway_ok THEN "healthy" ELSE "unhealthy")]_vars

\* no part of the body is text taken from a library's exception
NoExceptionText(resp) ==
    \A i \in 1..Len(resp.body) : resp.body[i].kind # "exception"

\* C17: no response of start, finalize or health contains raw exception
\* text.
C17_NoExceptionText ==
    /\ \A f \in Finalizers :
          proc[f].pc = "done" => NoExceptionText(finalize_response(proc[f]))
    /\ \A id \in Ids :
          starts[id].outcome # "unused" => NoExceptionText(starts[id].response)
    /\ lastRet.t = "http" => NoExceptionText(lastRet)

\* no text of the body is an auth token
NoToken(resp) ==
    \A i \in 1..Len(resp.body) :
        resp.body[i].kind \in {"literal", "value", "exception"}
            => resp.body[i].val \notin AuthTokens

\* C18: no response of finalize, success or error, contains the value of the
\* li_at cookie; when the record was claimed, the cookie extracted and the
\* delivery accepted, the response is the summary with li_at_present true
\* and the length of the user agent.
C18_SummaryWithoutToken ==
    \A f \in Finalizers :
        proc[f].pc = "done" =>
            LET resp == finalize_response(proc[f])
            IN  /\ NoToken(resp)
                /\ (Won(f) /\ IsDict(proc[f].captured) /\ proc[f].delivery = "accepted") =>
                      /\ resp.status = 200
                      /\ Len(resp.body) = 3
                      /\ Field(resp, "message") = "Session finalized successfully."
                      /\ Field(resp, "captured_data.li_at_present") = TRUE
                      /\ Field(resp, "captured_data.userAgent_length")
                            = Len(proc[f].captured.v.userAgent)

\* a finalize extracted a token, its delivery was accepted and it was
\* answered 200
C18_Witness ==
    \E f \in Finalizers :
        /\ proc[f].pc = "done"
        /\ Won(f)
        /\ IsDict(proc[f].captured)
        /\ proc[f].captured.v.li_at \in AuthTokens
        /\ proc[f].delivery = "accepted"
        /\ proc[f].status = 200

\* the record the store holds under an id
StoreRecord(id) ==
    IF backend = "memory" THEN sessions[id] ELSE json_loads(redis_kv[id].val)

Claimed(id) == \E f \in Finalizers : Won(f) /\ proc[f].session_id = id

\* C19: a start that succeeds stores one record {browserbase_session_id,
\* debugger_url} under the id it drew and answers with that id and the
\* record's debugger URL; the store holds nothing but these records, each
\* under its id, until the record is claimed or its time-to-live runs out;
\* a claim that finds the record returns it.
C19_StartStoresRecord ==
    /\ \A id \in Ids :
          starts[id].outcome = "issued" =>
              /\ starts[id].stored \in Records
              /\ starts[id].response.status = 200
              /\ Field(starts[id].response, "session_id") = id
              /\ Field(starts[id].response, "debugger_url") = starts[id].stored.v.debugger_url
              /\ (~Claimed(id) /\ (backend = "memory" \/ now < session_ttl_seconds))
                    => Holds(id)
    /\ \A id \in Ids :
          Holds(id) => (starts[id].outcome = "issued" /\ StoreRecord(id) = starts[id].stored)
    /\ \A f \in Finalizers :
          proc[f].claim_saw = "held" =>
              proc[f].session_details = starts[proc[f].session_id].stored

\* in the Redis variant a finalize claimed the record a start had stored
C19_Witness ==
    \E f \in Finalizers :
        /\ backend = "redis"
        /\ proc[f].claim_saw = "held"
        /\ starts[proc[f].session_id].outcome = "issued"
        /\ proc[f].session_details = starts[proc[f].session_id].stored
        /\ Field(starts[proc[f].session_id].response, "session_id") = proc[f].session_id

\* C26: the liveness probes return a boolean and never raise:
\* check_browserbase_api gives True when the listing call succeeds and False
\* when the provider errors; check_connection gives True for the in-memory
\* variant and, for Redis, True when the PING is answered and False when it
\* fails.
C26_ProbesReturnBool ==
    [][/\ \A ping \in PingOutcomes :
             (ping \in PingChoices /\ CheckConnection(ping))
                 => lastRet' = PyBool(backend = "memory" \/ ping = "PONG")
       /\ \A gw_ok \in BOOLEAN :
             CheckBrowserbase(gw_ok) => lastRet' = PyBool(gw_ok)]_vars

----------------------------------------------------------------------------
(* Claims about finalize *)

\* the Gateway refused the connect-URL request of finalize f: the call was
\* made and self.playwright was never set
ProviderRejected(f) == proc[f].gw_calls > 0 /\ proc[f].playwright = "unset"

\* C11: when the provider rejects the connect-URL request, or the delivery
\* endpoint rejects the payload (a 4xx, or all 3 attempts failed), finalize
\* is answered 502, not the success summary and not 500.
C11_UpstreamIs502 ==
    \A f \in Finalizers :
        (proc[f].pc = "done" /\ (ProviderRejected(f) \/ proc[f].delivery = "rejected"))
            => proc[f].status = 502

\* extraction ran in finalize f and found no li_at cookie
NoCookie(f) ==
    proc[f].yielded /\ proc[f].exc = "ValueError" /\ proc[f].captured = PyNone

C13_StoreDownIs503 ==
    \A f \in Finalizers :
        proc[f].claim_saw = "unreachable" =>
            /\ proc[f].pc = "done"
            /\ proc[f].status = 503
            /\ proc[f].gw_calls = 0
            /\ proc[f].playwright = "unset"

\* the store was unreachable for a finalize whose id a start had issued
C13_Witness ==
    \E f \in Finalizers :
        /\ proc[f].claim_saw = "unreachable"
        /\ proc[f].session_id \in Ids
        /\ starts[proc[f].session_id].outcome = "issued"
        /\ proc[f].status = 503

\* C3: of the finalize requests made with one internal id at most one
\* obtains the record, and only that one goes on to the Gateway and the
\* remote browser; every other one whose claim_session call reaches the
\* store ends with HTTP 404.
C3_SingleWinner ==
    /\ \A f, g \in Finalizers :
          (f # g /\ Won(f) /\ Won(g)) => proc[f].session_id # proc[g].session_id
    /\ \A f \in Finalizers :
          /\ (proc[f].gw_calls > 0 \/ proc[f].playwright # "unset" \/ proc[f].browser # "None")
                => Won(f)
          /\ (proc[f].claim_saw \in {"held", "absent"} /\ ~Won(f))
                => (proc[f].pc = "done" /\ proc[f].status = 404)

\* a finalize succeeded and a second finalize with the same id got 404
C3_Witness ==
    \E f, g \in Finalizers :
        /\ f # g
        /\ proc[f].session_id \in Ids
        /\ proc[f].session_id = proc[g].session_id
        /\ starts[proc[f].session_id].outcome = "issued"
        /\ proc[f].status = 200
        /\ proc[g].status = 404

\* C4: when a finalize in which a browser connection was opened has
\* returned (normally, after an error in the body, or after a setup failure),
\* the browser handle and the playwright handle have both been released.
C4_HandlesReleased ==
    \A f \in Finalizers :
        (proc[f].pc = "done" /\ proc[f].browser # "None") =>
            (proc[f].browser = "closed" /\ proc[f].playwright = "stopped")

\* C5: when __aenter__ fails after the claim succeeded, __aexit__ has run to
\* its end before the failure is answered, and no playwright or browser
\* handle opened by that entry is still open.
C5_SetupFailureTornDown ==
    \A f \in Finalizers :
        (proc[f].pc = "done" /\ Won(f) /\ ~proc[f].yielded) =>
            /\ proc[f].torn_down
            /\ proc[f].playwright \in {"unset", "stopped"}
            /\ proc[f].browser \in {"None", "closed"}

\* C6: when a finalize is cancelled inside __aenter__, after playwright was
\* started and before the page is returned, __aexit__ still runs and the
\* connection is released.
C6_CancelTornDown ==
    \A f \in Finalizers :
        (proc[f].pc = "cancelled" /\ ~proc[f].yielded /\ proc[f].playwright # "created") =>
            /\ proc[f].torn_down
            /\ proc[f].playwright \in {"unset", "stopped"}
            /\ proc[f].browser \in {"None", "closed"}

\* C7: a finalize whose id has no record in the store ends with HTTP 404,
\* has made no call to get_session_connect_url and has opened neither
\* playwright nor a browser connection.
C7_UnknownIdNotFound ==
    \A f \in Finalizers :
        proc[f].claim_saw = "absent" =>
            /\ proc[f].pc = "done"
            /\ proc[f].status = 404
            /\ proc[f].gw_calls = 0
            /\ proc[f].playwright = "unset"
            /\ proc[f].browser = "None"

\* a finalize with an id no start ever issued was answered 404
C7_Witness ==
    \E f \in Finalizers :
        /\ proc[f].session_id \in Ids
        /\ proc[f].claim_saw = "absent"
        /\ starts[proc[f].session_id].outcome = "unused"
        /\ proc[f].status = 404

\* C14: once a finalize has claimed its record, the id holds no record in
\* the store, whatever path the finalize leaves by, and every other finalize
\* with that id whose claim reaches the store is answered 404.
C14_RecordStaysConsumed ==
    \A f \in Finalizers :
        Won(f) =>
            /\ ~Holds(proc[f].session_id)
            /\ \A g \in Finalizers \ {f} :
                  (proc[g].session_id = proc[f].session_id
                     /\ proc[g].claim_saw \in {"held", "absent"})
                    => (proc[g].claim_saw = "absent" /\ proc[g].status = 404)

\* in the Redis variant a finalize claimed its record and failed in
\* extraction, and a second finalize with the same id was answered 404
C14_Witness ==
    \E f, g \in Finalizers :
        /\ f # g
        /\ backend = "redis"
        /\ Won(f) /\ proc[f].pc = "done" /\ proc[f].exc = "ValueError"
        /\ proc[g].session_id = proc[f].session_id
        /\ proc[g].claim_saw = "absent"
        /\ proc[g].status = 404
        /\ ~Holds(proc[f].session_id)

----------------------------------------------------------------------------
(* Claims about the time-to-live *)

\* what holds in every state: a Redis key past its time is gone, a record a
\* start stored is gone from Redis no sooner than its time-to-live after the
\* start, and never from the in-memory dict, unless it was claimed; a claim
\* that finds the record returns it, one that finds none returns None
C20_States ==
    /\ \A id \in DOMAIN redis_kv : redis_kv[id].exp > now
    /\ \A id \in Ids :
          (starts[id].outcome = "issued" /\ ~Claimed(id) /\ ~Holds(id))
              => (backend = "redis" /\ now >= session_ttl_seconds)
    /\ \A f \in Finalizers :
          /\ proc[f].claim_saw = "held" =>
                proc[f].session_details = starts[proc[f].session_id].stored
          /\ proc[f].claim_saw = "absent" => proc[f].session_details = PyNone

\* what holds of every step: a key set in Redis expires session_ttl_seconds
\* later; a record leaves the store only by a claim or, in Redis, when its
\* time has come; get_session on an id without a record returns None in Redis
C20_Steps ==
    /\ \A id \in Ids :
          (id \notin DOMAIN redis_kv /\ id \in DOMAIN redis_kv')
              => redis_kv'[id].exp = now + session_ttl_seconds
    /\ \A id \in Ids :
          (Holds(id) /\ ~Holds(id)') =>
              \/ \E f \in Finalizers :
                    /\ proc[f].pc = "claim" /\ proc[f].session_id = id
                    /\ proc'[f].claim_saw = "held"
              \/ backend = "redis" /\ now' > now /\ now' >= redis_kv[id].exp
    /\ \A id \in Ids :
          (backend = "redis" /\ ~Holds(id) /\ Get(id) /\ ~IsRaise(lastRet'))
              => lastRet' = PyNone

\* C20: the Redis variant stores every record with the configured
\* time-to-live (900 s); when that time has passed without a claim the record
\* is gone and claim_session and get_session return None, while a claim
\* before that returns the record. The in-memory variant never drops a
\* record as time passes.
C20_TimeToLive == []C20_States /\ [][C20_Steps]_vars

\* in Redis a record that nobody claimed is gone after 900 s, and a finalize
\* with its id was answered 404
C20_Witness ==
    \E f \in Finalizers :
        /\ backend = "redis"
        /\ now >= session_ttl_seconds
        /\ proc[f].session_id \in Ids
        /\ starts[proc[f].session_id].outcome = "issued"
        /\ ~Claimed(proc[f].session_id)
        /\ ~Holds(proc[f].session_id)
        /\ proc[f].claim_saw = "absent"
        /\ proc[f].status = 404

----------------------------------------------------------------------------
(* Claims about the steps of one finalize *)

\* C24: within one finalize the steps come in the order claim, connect URL,
\* connection, page, extraction, release: the connect URL is asked for only
\* with a claimed record, playwright is created only after that call, the
\* browser is connected only with playwright started, the page is given out
\* only with the record claimed and the browser connected, data is captured
\* only from a page given out, and once __aexit__ has run the request takes
\* no further step.
C24_StepOrder ==
    \A f \in Finalizers :
        /\ proc[f].pc \in {"resolve", "pw_start", "connect", "goto", "extract", "send"}
              => (Won(f) /\ ~proc[f].torn_down)
        /\ proc[f].gw_calls > 0 => Won(f)
        /\ proc[f].playwright # "unset" => proc[f].gw_calls > 0
        /\ proc[f].browser # "None" => proc[f].playwright \in {"started", "stopped"}
        /\ proc[f].yielded => (Won(f) /\ proc[f].browser = "connected")
        /\ IsDict(proc[f].captured) => proc[f].yielded
        /\ proc[f].delivery # "-" => IsDict(proc[f].captured)
        /\ proc[f].torn_down => proc[f].pc \in {"done", "cancelled"}

\* a finalize went through every step and was released
C24_Witness ==
    \E f \in Finalizers :
        /\ proc[f].pc = "done"
        /\ proc[f].gw_calls = 1
        /\ proc[f].yielded
        /\ IsDict(proc[f].captured)
        /\ proc[f].delivery # "-"
        /\ proc[f].torn_down
        /\ proc[f].playwright = "stopped"

\* C25: after connecting, __aenter__ gives out the first page of the first
\* context, and when the browser has no context or the context no page it
\* makes a new page and gives that out: a finalize that connected its browser
\* was given a page.
C25_PageCreated ==
    \A f \in Finalizers :
        (proc[f].pc = "done" /\ proc[f].browser = "connected") => proc[f].yielded

\* C28: send_to_bubble is called only by a finalize that claimed its record,
\* was given a page and extracted a payload that holds the li_at token.
C28_SendAfterExtraction ==
    \A f \in Finalizers :
        (proc[f].pc = "send" \/ proc[f].delivery # "-") =>
            /\ Won(f)
            /\ proc[f].yielded
            /\ IsDict(proc[f].captured)
            /\ "li_at" \in DOMAIN proc[f].captured.v
            /\ proc[f].captured.v.li_at \in AuthTokens

\* the delivery client was called, with a payload holding the token, and the
\* endpoint rejected the payload
C28_Witness ==
    \E f \in Finalizers :
        /\ proc[f].delivery = "rejected"
        /\ proc[f].captured.v.li_at \in AuthTokens
        /\ proc[f].claim_saw = "held"

----------------------------------------------------------------------------
(* Claims about the waits of the delivery client *)

\* C27: the wait before retry n is min(2 * 2^(n-1), 10) seconds: 2 s before
\* the second attempt and 4 s before the third.
C27_WaitDoubles ==
    \A n \in 1..Len(slept) : slept[n] = Min(2 * Pow(2, n - 1), 10)

----------------------------------------------------------------------------
(* Claims about the sanitizer of error responses *)

\* the text parses as a JSON object
ParsesAsObject(text) ==
    LET data == JSONDecoder_decode(text)
    IN  ~IsRaise(data) /\ IsJDict(data)

\* out is the object data with "[REDACTED]" for li_at and every other field as it was
RedactedCopy(data, out) ==
    /\ IsJDict(out)
    /\ Len(out.items) = Len(data.items)
    /\ \A i \in 1..Len(data.items) :
          /\ out.items[i].key = data.items[i].key
          /\ IF data.items[i].key = "li_at" THEN out.items[i].val = REDACTED
             ELSE out.items[i].val = data.items[i].val

\* C21: for every input text s, sanitize(sanitize(s)) and sanitize(s) are
\* texts and they are equal.
C21_Idempotent ==
    Len(sanitized) = 2 =>
        /\ ~IsRaise(sanitized[1])
        /\ ~IsRaise(sanitized[2])
        /\ sanitized[2] = sanitized[1]

C23_Total ==
    Len(sanitized) >= 1 =>
        /\ ~IsRaise(sanitized[1])
        /\ IsRaise(JSONDecoder_decode(response_text)) => sanitized[1] = response_text

====
